---- MODULE Spec2Model ----
(***************************************************************************)
(* APIIntegrator (src/api_integrator.py) and MarketResearchAnalyzer        *)
(* (src/market_research_analyzer.py) as one state machine.                 *)
(*                                                                         *)
(* Each public method is one atomic action.  The calls a method makes on   *)
(* its collaborators (connector.connect, get_market_data, ...) and on its  *)
(* logger are recorded, in order, in `trace` and `log`, so that the order  *)
(* and the number of the calls of one invocation can be stated as state    *)
(* predicates on the state the invocation leaves behind.                   *)
(***************************************************************************)
EXTENDS Naturals, Sequences, FiniteSets

VARIABLES
    connectors, \* self.connectors: name -> connector, Absent for a key not held
    latest,     \* per name, the connector of the most recent add_connector call
    prior,      \* the entry the last add_connector call stored over
    op,         \* the method that ran last
    config,     \* the config the last connect_apis call was given
    raises,     \* position of the connect call that raises in it (0: none does)
    niche,      \* the niche the last analyze_market call was given
    trace,      \* calls the last method made on its collaborators, in order
    log,        \* log records the last method wrote, in order
    thrown,     \* exception raised inside the last method's try block
    outcome     \* what the caller got back: a return value or an exception

vars == <<connectors, latest, prior, op, config, raises, niche, trace, log, thrown, outcome>>

----------------------------------------------------------------------------
(* Bounds and value universes *)

\* longest service list a config carries
MaxServices == 2

\* connector names used as dict keys and in service descriptors
Names == {"a", "b"}

\* connector objects handed to add_connector; EmptyHandle is an object whose
\* truth value is false (None, or a connector defining __bool__/__len__)
EmptyHandle == "hEmpty"
Handles == {"h1", "h2", EmptyHandle}

\* parameter bags of a service descriptor
ParamBags == {"p1", "p2"}

\* niches passed to analyze_market
Niches == {"n1", "n2"}

\* a key that a dict does not hold
Absent == "<absent>"

\* Python's None
None == "None"

NoError == [type |-> "none", pos |-> 0, msg |-> ""]
NoOutcome == [kind |-> "none", value |-> "NoValue", err |-> NoError]
NoConfig == [hasServices |-> FALSE, services |-> <<>>]

NoPrior == [name |-> Absent, connector |-> Absent]

\* service descriptors: well formed ("a" with either bag, "b" with the first),
\* or with the 'name' or the 'params' key missing
Descriptors ==
    {d \in [name : Names, params : ParamBags] : d.name = "a" \/ d.params = "p1"}
        \cup {[name |-> Absent, params |-> "p1"], [name |-> "a", params |-> Absent]}

RECURSIVE SeqsUpTo(_, _)
SeqsUpTo(S, n) ==
    IF n = 0 THEN {<<>>}
    ELSE LET shorter == SeqsUpTo(S, n - 1)
         IN  shorter \cup {Append(s, x) : s \in {t \in shorter : Len(t) = n - 1}, x \in S}

\* configs handed to connect_apis: without the 'services' key, or with a list
Configs ==
    {NoConfig} \cup
    {[hasServices |-> TRUE, services |-> s] : s \in SeqsUpTo(Descriptors, MaxServices)}

----------------------------------------------------------------------------
(* Events and errors *)

Event(ev, pos, target, arg, ok) ==
    [ev |-> ev, pos |-> pos, target |-> target, arg |-> arg, ok |-> ok]

Error(type, pos, msg) == [type |-> type, pos |-> pos, msg |-> msg]

LogEntry(level, msg, pos) == [level |-> level, msg |-> msg, pos |-> pos]

\* result of running a block of code: the calls made, the log lines written,
\* the exception that left the block (NoError when none) and the return value
Run(tr, lg, err, value) == [trace |-> tr, log |-> lg, err |-> err, value |-> value]

----------------------------------------------------------------------------
(* APIIntegrator *)

\* variant: self.connectors.setdefault(name, connector), the first entry stays
StoreKeepFirst(conns, name, connector) ==
    IF conns[name] = Absent THEN [conns EXCEPT ![name] = connector] ELSE conns

\* variant: self.connectors = {name: connector}, the other entries are dropped
StoreOnly(conns, name, connector) ==
    [n \in Names |-> IF n = name THEN connector ELSE Absent]

\* self.connectors[name] = connector
Store(conns, name, connector) == [conns EXCEPT ![name] = connector]

\* self.connectors.get(name)
Lookup(conns, name) == IF conns[name] = Absent THEN None ELSE conns[name]

\* bool(connector)
Truthy(connector) == connector \notin {None, EmptyHandle}

\* variant: the `if not connector` test left out
NotFoundNever(connector) == FALSE

\* `not connector`
NotFound(connector) == ~Truthy(connector)

\* _validate_config: the body is missing from the source; the minimum contract
\* of the specification: a 'services' key, a non-empty list, and 'name' and
\* 'params' in every descriptor
validate_config(cfg) ==
    /\ cfg.hasServices
    /\ cfg.services # <<>>
    /\ \A i \in 1..Len(cfg.services) :
          /\ cfg.services[i].name # Absent
          /\ cfg.services[i].params # Absent

\* variant: the result of _validate_config ignored
RejectsNever(cfg) == FALSE

\* `if not self._validate_config(config)`
Rejects(cfg) == ~validate_config(cfg)

\* the body of the for loop for the service at position i, appended to the run
\* r; failAt is the position whose connect call raises (0: none).  The loop ends
\* at the first exception, so one failing position covers every behaviour.
ServiceStep(conns, service, i, failAt, r) ==
    IF service.name = Absent
    THEN [r EXCEPT !.err = Error("KeyError", i, "name")]
    ELSE
    LET connector == Lookup(conns, service.name)
        got == Append(r.trace, Event("get", i, service.name, "", TRUE))
    IN  IF NotFound(connector)
        THEN [r EXCEPT !.trace = got,
                       !.err = Error("ValueError", i, "Connector not found")]
        ELSE
        LET lg == Append(r.log, LogEntry("info", "Connecting", i))
        IN  IF service.params = Absent
            THEN [r EXCEPT !.trace = got, !.log = lg,
                           !.err = Error("KeyError", i, "params")]
            ELSE IF connector = None
            THEN [r EXCEPT !.trace = got, !.log = lg,
                           !.err = Error("AttributeError", i, "connect")]
            ELSE [r EXCEPT
                    !.trace = Append(got, Event("connect", i, connector,
                                                service.params, i # failAt)),
                    !.log = lg,
                    !.err = IF i = failAt
                            THEN Error("ConnectorError", i, "connect raised")
                            ELSE NoError]

\* variant: the exception caught inside the loop, which goes on
LeavesNever(r) == FALSE

\* an exception leaves the for loop; without one the next service is taken
Leaves(r) == r.err # NoError

RECURSIVE ServiceLoop(_, _, _, _, _)
ServiceLoop(conns, services, i, failAt, r) ==
    IF i > Len(services) THEN r
    ELSE LET r2 == ServiceStep(conns, services[i], i, failAt, r)
         IN  IF Leaves(r2) THEN r2
             ELSE ServiceLoop(conns, services, i + 1, failAt, r2)

\* the try block of connect_apis
connect_apis_try(conns, cfg, failAt) ==
    LET start == Run(<<>>, <<LogEntry("info", "Starting API integration process", 0)>>,
                     NoError, "NoValue")
    IN  IF Rejects(cfg)
        THEN [start EXCEPT !.err = Error("ValueError", 0, "Invalid configuration provided")]
        ELSE IF ~cfg.hasServices
        THEN [start EXCEPT !.err = Error("KeyError", 0, "services")]
        ELSE LET r == ServiceLoop(conns, cfg.services, 1, failAt, start)
             IN  IF r.err = NoError THEN [r EXCEPT !.value = "True"] ELSE r

\* variant: the except clause logs and returns False instead of re-raising
connect_apis_swallow(r) ==
    IF r.err = NoError THEN r
    ELSE [r EXCEPT !.err = NoError, !.value = "False",
                   !.log = Append(r.log, LogEntry("error", "API integration failed", r.err.pos))]

\* the except clause of connect_apis: log at error severity, then `raise`
connect_apis_except(r) ==
    IF r.err = NoError THEN r
    ELSE [r EXCEPT !.log = Append(r.log, LogEntry("error", "API integration failed", r.err.pos))]

\* what the caller sees of a finished run
OutcomeOf(r) ==
    IF r.err = NoError
    THEN [kind |-> "returned", value |-> r.value, err |-> NoError]
    ELSE [kind |-> "raised", value |-> "NoValue", err |-> r.err]

----------------------------------------------------------------------------
(* MarketResearchAnalyzer *)

\* _process_gap_analysis: the body is `pass`; it returns None and cannot raise
process_gap_analysis(current_data, historical_data) == None

FetchSteps == {"get_market_data", "retrieve_historical_market_data"}

\* variant: the historical data retrieved before the market data
analyze_market_swapped(n, failing) ==
    LET start == Run(<<>>, <<LogEntry("info", "Starting market analysis", 0)>>,
                     NoError, "NoValue")
        h == Event("retrieve_historical_market_data", 2, "knowledge_repo", n,
                   "retrieve_historical_market_data" \notin failing)
        m == Event("get_market_data", 1, "api_connector", n,
                   "get_market_data" \notin failing)
    IN  IF ~h.ok
        THEN [start EXCEPT !.trace = <<h>>,
                           !.err = Error("RepositoryError", 2, "retrieve raised")]
        ELSE IF ~m.ok
        THEN [start EXCEPT !.trace = <<h, m>>,
                           !.err = Error("APIConnectionError", 1, "fetch raised")]
        ELSE [start EXCEPT
                !.trace = <<h, m, Event("_process_gap_analysis", 3, "self", "", TRUE)>>,
                !.value = process_gap_analysis("market_data", "historical_data")]

\* the try block of analyze_market; failing is the set of fetches that raise
analyze_market_try(n, failing) ==
    LET start == Run(<<>>, <<LogEntry("info", "Starting market analysis", 0)>>,
                     NoError, "NoValue")
        m == Event("get_market_data", 1, "api_connector", n,
                   "get_market_data" \notin failing)
        h == Event("retrieve_historical_market_data", 2, "knowledge_repo", n,
                   "retrieve_historical_market_data" \notin failing)
    IN  IF ~m.ok
        THEN [start EXCEPT !.trace = <<m>>,
                           !.err = Error("APIConnectionError", 1, "fetch raised")]
        ELSE IF ~h.ok
        THEN [start EXCEPT !.trace = <<m, h>>,
                           !.err = Error("RepositoryError", 2, "retrieve raised")]
        ELSE [start EXCEPT
                !.trace = <<m, h, Event("_process_gap_analysis", 3, "self", "", TRUE)>>,
                !.value = process_gap_analysis("market_data", "historical_data")]

\* the except clause of analyze_market: log at error severity, then `raise`
analyze_market_except(r) ==
    IF r.err = NoError THEN r
    ELSE [r EXCEPT !.log = Append(r.log, LogEntry("error", "Market analysis failed", r.err.pos))]

----------------------------------------------------------------------------
(* State machine *)

Init ==
    /\ connectors = [n \in Names |-> Absent]
    /\ latest = [n \in Names |-> Absent]
    /\ prior = NoPrior
    /\ op = "init"
    /\ config = NoConfig
    /\ raises = 0
    /\ niche = ""
    /\ trace = <<>>
    /\ log = <<>>
    /\ thrown = NoError
    /\ outcome = NoOutcome

add_connector(name, connector) ==
    /\ connectors' = Store(connectors, name, connector)
    /\ latest' = [latest EXCEPT ![name] = connector]
    /\ prior' = [name |-> name, connector |-> connectors[name]]
    /\ op' = "add_connector"
    /\ config' = NoConfig
    /\ raises' = 0
    /\ niche' = ""
    /\ trace' = <<>>
    /\ log' = <<LogEntry("info", "Added connector", 0)>>
    /\ thrown' = NoError
    /\ outcome' = [kind |-> "returned", value |-> None, err |-> NoError]

connect_apis(cfg, failAt) ==
    \E body \in {connect_apis_try(connectors, cfg, failAt)} :
    \E r \in {connect_apis_except(body)} :
        /\ op' = "connect_apis"
        /\ prior' = NoPrior
        /\ config' = cfg
        /\ raises' = failAt
        /\ niche' = ""
        /\ trace' = r.trace
        /\ log' = r.log
        /\ thrown' = body.err
        /\ outcome' = OutcomeOf(r)
        /\ UNCHANGED <<connectors, latest>>

analyze_market(n, failing) ==
    \E body \in {analyze_market_try(n, failing)} :
    \E r \in {analyze_market_except(body)} :
        /\ op' = "analyze_market"
        /\ prior' = NoPrior
        /\ config' = NoConfig
        /\ raises' = 0
        /\ niche' = n
        /\ trace' = r.trace
        /\ log' = r.log
        /\ thrown' = body.err
        /\ outcome' = OutcomeOf(r)
        /\ UNCHANGED <<connectors, latest>>

Next ==
    \/ \E name \in Names, connector \in Handles : add_connector(name, connector)
    \/ \E cfg \in Configs : \E failAt \in 0..Len(cfg.services) : connect_apis(cfg, failAt)
    \/ \E n \in Niches, failing \in SUBSET FetchSteps : analyze_market(n, failing)

Spec == Init /\ [][Next]_vars

----------------------------------------------------------------------------
(* Reading the record of the last call *)

Services == config.services

Positions == 1..Len(Services)

ConnectEvents == SelectSeq(trace, LAMBDA e : e.ev = "connect")

GetEvents == SelectSeq(trace, LAMBDA e : e.ev = "get")

ErrorLogs == SelectSeq(log, LAMBDA l : l.level = "error")

Count(ev) == Len(SelectSeq(trace, LAMBDA e : e.ev = ev))

WellFormed(i) == Services[i].name # Absent /\ Services[i].params # Absent

\* the name of descriptor i is a key of the registry
Registered(i) == Services[i].name # Absent /\ connectors[Services[i].name] # Absent

Unregistered(i) == Services[i].name # Absent /\ connectors[Services[i].name] = Absent

\* the connect call of descriptor i, as the claims describe it
ConnectOf(i, ok) ==
    Event("connect", i, connectors[Services[i].name], Services[i].params, ok)

InvalidConfig == Error("ValueError", 0, "Invalid configuration provided")

NotFoundAt(k) == Error("ValueError", k, "Connector not found")

Raised == outcome.kind = "raised" /\ outcome.value = "NoValue"

----------------------------------------------------------------------------
(* C1 *)

\* C1: for a config that passes validation, whose names are all registered
\* and whose connect calls all return, connect_apis returns True after one
\* connect call per descriptor, in list order, each on the connector stored
\* under the descriptor's name and with the descriptor's parameter bag.
C1_ConnectsEachOnceInOrder ==
    (/\ op = "connect_apis"
     /\ validate_config(config)
     /\ \A i \in Positions : Registered(i)
     /\ raises = 0)
    => /\ outcome.kind = "returned"
       /\ outcome.value = "True"
       /\ Len(ConnectEvents) = Len(Services)
       /\ \A i \in Positions : ConnectEvents[i] = ConnectOf(i, TRUE)

----------------------------------------------------------------------------
(* C2 *)

\* C2: a config without 'services', or with an empty list, makes connect_apis
\* raise the invalid-configuration ValueError without a single call on any
\* registered connector, whatever the registry holds.
C2_NoServicesRejected ==
    (op = "connect_apis" /\ (~config.hasServices \/ Services = <<>>))
    => /\ Raised
       /\ outcome.err = InvalidConfig
       /\ trace = <<>>

C2_Witness ==
    /\ op = "connect_apis"
    /\ config.hasServices
    /\ Services = <<>>
    /\ \A n \in Names : Truthy(Lookup(connectors, n))
    /\ outcome.err = InvalidConfig

----------------------------------------------------------------------------
(* C3 *)

FirstUnregistered ==
    IF \E i \in Positions : Unregistered(i)
    THEN CHOOSE k \in Positions :
            Unregistered(k) /\ \A j \in 1..(k - 1) : ~Unregistered(j)
    ELSE 0

\* C3 (as claimed): whenever the list holds a descriptor with an unregistered
\* name, connect_apis fails with a configuration error, the not-found ValueError
\* raised at the first such descriptor (or the rejection of the whole config by
\* validation), and no connector is called for that descriptor or a later one.
C3_FailsAtUnregistered ==
    (op = "connect_apis" /\ FirstUnregistered # 0)
    => /\ Raised
       /\ outcome.err \in {InvalidConfig, NotFoundAt(FirstUnregistered)}
       /\ \A i \in 1..Len(ConnectEvents) : ConnectEvents[i].pos < FirstUnregistered

\* C3 (amended): whenever the list holds a descriptor with an unregistered
\* name, connect_apis raises an error that arises at or before the first such
\* descriptor, makes no connect call for that descriptor or for any later one
\* and resolves no later one; when validation passes and no earlier descriptor
\* fails (each is found and its connect returns), the error is the not-found
\* ValueError raised at that descriptor, after one connect call per earlier
\* descriptor in list order.
C3_StopsAtFirstUnregistered ==
    (op = "connect_apis" /\ FirstUnregistered # 0)
    => LET k == FirstUnregistered
       IN  /\ Raised
           /\ outcome.err.pos <= k
           /\ \A i \in 1..Len(ConnectEvents) : ConnectEvents[i].pos < k
           /\ \A i \in 1..Len(GetEvents) : GetEvents[i].pos <= k
           /\ (/\ validate_config(config)
               /\ \A j \in 1..(k - 1) : ~NotFound(Lookup(connectors, Services[j].name))
               /\ raises \notin 1..(k - 1))
              => /\ outcome.err = NotFoundAt(k)
                 /\ Len(ConnectEvents) = k - 1
                 /\ \A j \in 1..(k - 1) : ConnectEvents[j] = ConnectOf(j, TRUE)

C3_Witness ==
    /\ op = "connect_apis"
    /\ Len(Services) = 2
    /\ FirstUnregistered = 2
    /\ Len(ConnectEvents) = 1
    /\ outcome.err = NotFoundAt(2)

----------------------------------------------------------------------------
(* C4 *)

\* C4: add_connector under a name already held replaces the entry and returns
\* normally; the registry always maps each name to the connector of its most
\* recent registration, and every connect call of connect_apis goes to that
\* connector.
C4_LastRegistrationWins ==
    /\ connectors = latest
    /\ op = "add_connector" => outcome.kind = "returned" /\ outcome.err = NoError
    /\ op = "connect_apis" =>
          \A i \in 1..Len(ConnectEvents) :
              ConnectEvents[i].target = latest[Services[ConnectEvents[i].pos].name]

C4_Witness ==
    /\ op = "add_connector"
    /\ prior.connector \in Handles
    /\ connectors[prior.name] \in Handles \ {prior.connector}
    /\ latest[prior.name] = connectors[prior.name]
    /\ outcome.kind = "returned"

----------------------------------------------------------------------------
(* C5 *)

FetchesOf(ev) == SelectSeq(trace, LAMBDA e : e.ev = ev)

\* C5 (as claimed): every analyze_market call makes exactly one
\* get_market_data call and exactly one retrieve_historical_market_data call,
\* both with the niche the call was given.
C5_BothFetchedOnce ==
    op = "analyze_market"
    => /\ Count("get_market_data") = 1
       /\ Count("retrieve_historical_market_data") = 1
       /\ \A i \in 1..Len(trace) : trace[i].ev \in FetchSteps => trace[i].arg = niche

\* C5 (amended): every analyze_market call makes exactly one get_market_data
\* call, with its niche, first; when that call returns it makes exactly one
\* retrieve_historical_market_data call with the same niche, and when that
\* call raises it makes none.
C5_FetchesOnceUnlessFirstRaises ==
    op = "analyze_market"
    => /\ Count("get_market_data") = 1
       /\ trace[1].ev = "get_market_data"
       /\ \A i \in 1..Len(trace) : trace[i].ev \in FetchSteps => trace[i].arg = niche
       /\ Count("retrieve_historical_market_data") = (IF trace[1].ok THEN 1 ELSE 0)

C5_Witness ==
    /\ op = "analyze_market"
    /\ niche \in Niches
    /\ FetchesOf("get_market_data") # <<>>
    /\ FetchesOf("retrieve_historical_market_data") # <<>>
    /\ outcome.kind = "returned"

----------------------------------------------------------------------------
(* C6 *)

\* something went wrong in the last call: validation turned the config down,
\* a connector was not found, or a call on a collaborator raised
Failed ==
    \/ thrown # NoError
    \/ \E i \in 1..Len(trace) : ~trace[i].ok
    \/ op = "connect_apis" /\ ~validate_config(config)

\* C6: a failure inside connect_apis or analyze_market ends the call there:
\* one error-severity log record is written, as the last one; the caller gets
\* the very exception that was raised and no return value; no collaborator
\* call follows the failure and none is made a second time.
C6_FailureAbortsAndPropagates ==
    (op \in {"connect_apis", "analyze_market"} /\ Failed)
    => /\ thrown # NoError
       /\ outcome.kind = "raised"
       /\ outcome.err = thrown
       /\ outcome.value = "NoValue"
       /\ Len(ErrorLogs) = 1
       /\ log[Len(log)].level = "error"
       /\ \A i \in 1..Len(trace) : ~trace[i].ok => i = Len(trace)
       /\ \A i, j \in 1..Len(trace) :
             (trace[i].ev = trace[j].ev /\ trace[i].pos = trace[j].pos) => i = j

C6_Witness ==
    /\ op = "connect_apis"
    /\ Len(Services) = 2
    /\ raises = 2
    /\ Len(ConnectEvents) = 2
    /\ thrown = Error("ConnectorError", 2, "connect raised")
    /\ outcome.err = thrown

----------------------------------------------------------------------------
(* C7 *)

\* C7: a descriptor without 'name' or without 'params', at any position, makes
\* connect_apis turn the whole config down: it raises and makes no connect
\* call at all, not even for well-formed descriptors ahead of the malformed one.
C7_ValidatesBeforeConnecting ==
    (op = "connect_apis" /\ \E i \in Positions : ~WellFormed(i))
    => /\ Raised
       /\ outcome.err = InvalidConfig
       /\ ConnectEvents = <<>>
       /\ GetEvents = <<>>

C7_Witness ==
    /\ op = "connect_apis"
    /\ Len(Services) = 2
    /\ WellFormed(1)
    /\ Truthy(Lookup(connectors, Services[1].name))
    /\ ~WellFormed(2)
    /\ outcome.err = InvalidConfig

----------------------------------------------------------------------------
(* C8 *)

\* C8: when the connect call of the descriptor at position k raises, exactly
\* the descriptors 1..k were resolved and connected, once each and in list
\* order, those before k successfully and with nothing undone afterwards, and
\* no descriptor after k was resolved or connected.
C8_StopsAtFirstFailure ==
    (op = "connect_apis" /\ \E i \in 1..Len(ConnectEvents) : ~ConnectEvents[i].ok)
    => LET k == CHOOSE i \in 1..Len(ConnectEvents) : ~ConnectEvents[i].ok
       IN  /\ Len(ConnectEvents) = k
           /\ Len(GetEvents) = k
           /\ Len(trace) = 2 * k
           /\ \A i \in 1..k : ConnectEvents[i] = ConnectOf(i, i # k)
           /\ \A i \in 1..k : GetEvents[i].pos = i
           /\ Raised
           /\ outcome.err = Error("ConnectorError", k, "connect raised")

C8_Witness ==
    /\ op = "connect_apis"
    /\ Len(Services) = 2
    /\ raises = 1
    /\ Len(ConnectEvents) = 1
    /\ Truthy(Lookup(connectors, Services[2].name))
    /\ Services[2].name # Services[1].name

----------------------------------------------------------------------------
(* C9 *)

\* C9: every connector stored by add_connector can be dispatched to: a
\* not-found error is raised only at a descriptor whose name was never
\* registered, and a valid config whose first descriptor names a registered
\* connector gets that connector's connect called.
C9_EveryStoredHandleDispatchable ==
    op = "connect_apis"
    => /\ \A k \in Positions : thrown = NotFoundAt(k) => Unregistered(k)
       /\ (validate_config(config) /\ Registered(1))
             => (ConnectEvents # <<>> /\ ConnectEvents[1].target = connectors[Services[1].name])

----------------------------------------------------------------------------
(* C10 *)

\* C10: connect_apis leaves the registry as it found it; only add_connector
\* changes the registry; no step removes a registered name.
C10_RegistryFrame ==
    [][/\ op' = "connect_apis" => connectors' = connectors
       /\ connectors' # connectors => op' = "add_connector"
       /\ \A n \in Names : connectors[n] # Absent => connectors'[n] # Absent]_vars

C10_Witness ==
    /\ op = "connect_apis"
    /\ outcome.kind = "raised"
    /\ \A n \in Names : connectors[n] # Absent
    /\ ConnectEvents # <<>>

====
